---- MODULE Spec2Model ----
(***************************************************************************)
(* Model of kafka_producer_churn.py: a one-shot script that reads a CSV    *)
(* file into a data frame, constructs a KafkaProducer, calls send() once   *)
(* per row, calls flush() and prints a success line.                       *)
(*                                                                         *)
(* The script's own statements are the actions ReadCsv, Construct, Send,   *)
(* Flush, PrintSuccess. The kafka client's background sender thread, which    *)
(* completes the futures returned by send(), is the environment: BrokerAck *)
(* and BrokerFail.  The script never looks at those futures.               *)
(***************************************************************************)
EXTENDS Integers, Sequences, FiniteSets

\* ---------------------------------------------------------------- bounds
MaxRows == 3

\* ------------------------------------------------------------- constants
Topic == "churn_input_topic"
\* The printed line (its leading check-mark emoji is left out).
SuccessLine == "Data sent to Kafka topic: churn_input_topic"

\* Header of the CSV file (the real file has 21 feature columns).
Columns == <<"customerID", "Churn">>
NumCols == Len(Columns)

\* Text of one CSV cell.
Cells == {"Yes", "7"}

\* A data line of the file: at most NumCols cells; a short line is legal.
Lines == UNION {[1..n -> Cells] : n \in 1..NumCols}

FileStatus == {"ok", "missing", "corrupt"}

Files == UNION {[1..n -> Lines] : n \in 0..MaxRows}

VARIABLES
  csv,        \* the input file: [status, lines], and the pandas in use
  pc,         \* position of the script
  df,         \* the data frame (sequence of rows of typed values)
  producer,   \* TRUE once KafkaProducer(...) has returned
  i,          \* number of rows iterrows() has yielded so far
  calls,      \* every producer.send call made: [topic, value]
  futures,    \* per call: delivery state of the record
  payloads,   \* per call: what value_serializer produced
  stdout,     \* lines printed
  exc,        \* uncaught exception that ended the script, or "none"
  exitStatus  \* -1 while running, then the process exit status

vars == <<csv, pc, df, producer, i, calls, futures, payloads, stdout, exc,
          exitStatus>>

\* ------------------------------------------------------ pandas.read_csv
NaN == [t |-> "float", s |-> "NaN"]

\* One cell as read_csv types it.
ParseCell(c) ==
  IF c = "7" THEN [t |-> "int64", s |-> c] ELSE [t |-> "str", s |-> c]

\* A line shorter than the header is filled with NaN.
ParseLine(l) ==
  [c \in 1..NumCols |-> IF c <= Len(l) THEN ParseCell(l[c]) ELSE NaN]

\* Variant of read_csv that swallows a read failure and yields a frame anyway.
ReadCsvBroken(f) ==
  [ok |-> TRUE, exc |-> "none",
   df |-> IF f.status = "ok" THEN [r \in 1..Len(f.lines) |-> ParseLine(f.lines[r])]
          ELSE <<ParseLine(<<"Yes">>)>>]

\* pd.read_csv(path): the frame, or the exception it raises.
ReadCsvResult(f) ==
  CASE f.status = "missing" -> [ok |-> FALSE, exc |-> "FileNotFoundError", df |-> <<>>]
    [] f.status = "corrupt" -> [ok |-> FALSE, exc |-> "ParserError", df |-> <<>>]
    [] OTHER -> [ok |-> TRUE, exc |-> "none",
                 df |-> [r \in 1..Len(f.lines) |-> ParseLine(f.lines[r])]]

\* Exceptions of read_csv that mean the input could not be read.
SourceUnreadable == {"FileNotFoundError", "ParserError"}

\* ------------------------------------------------- iterrows / to_dict
\* Variant of iterrows() that never advances past the first row.
IterRowFirst(frame, n) == frame[1]

\* The n-th row yielded by df.iterrows().
IterRow(frame, n) == frame[n]

\* row.to_dict(): column name -> value.  Whether a numpy scalar is boxed
\* to a native Python number depends on the pandas in use.
ToDict(row, boxes) ==
  [name \in {Columns[c] : c \in 1..NumCols} |->
     LET c == CHOOSE k \in 1..NumCols : Columns[k] = name
         v == row[c]
     IN IF boxes /\ v.t = "int64" THEN [t |-> "int", s |-> v.s] ELSE v]

\* ------------------------------------------------------ value_serializer
\* json.dumps has an encoder for str, int and float, none for numpy.int64.
Encodable(v) == v.t \in {"str", "int", "float"}

EncodeValue(v) ==
  IF v.t = "str" THEN <<"\"", v.s, "\"">> ELSE <<v.s>>

RECURSIVE EncodeItems(_, _)
EncodeItems(d, c) ==
  IF c > NumCols THEN <<>>
  ELSE (IF c > 1 THEN <<",">> ELSE <<>>)
       \o <<"\"", Columns[c], "\"", ":">> \o EncodeValue(d[Columns[c]])
       \o EncodeItems(d, c + 1)

\* lambda x: json.dumps(x).encode('utf-8')
Serialize(d) ==
  IF \E c \in 1..NumCols : ~Encodable(d[Columns[c]])
  THEN [ok |-> FALSE, exc |-> "TypeError", bytes |-> <<>>]
  ELSE [ok |-> TRUE, exc |-> "none",
        bytes |-> <<"{">> \o EncodeItems(d, 1) \o <<"}">>]

\* ------------------------------------------------------------- the script
Init ==
  /\ csv \in [status : FileStatus, lines : Files, boxes : BOOLEAN]
  /\ pc = "read"
  /\ df = <<>>
  /\ producer = FALSE
  /\ i = 0
  /\ calls = <<>>
  /\ futures = <<>>
  /\ payloads = <<>>
  /\ stdout = <<>>
  /\ exc = "none"
  /\ exitStatus = -1

\* Interpreter exit: the producer's atexit hook runs close(timeout=0), which
\* aborts every record still buffered or in flight.
AtExit(fs) ==
  [k \in 1..Len(fs) |-> IF fs[k] = "pending" THEN "aborted" ELSE fs[k]]

\* An uncaught exception: traceback, exit status 1.
Raise(e) ==
  /\ exc' = e
  /\ exitStatus' = 1
  /\ pc' = "exit"

\* line 6
ReadCsv ==
  /\ pc = "read"
  /\ LET r == ReadCsvResult(csv)
     IN IF r.ok
        THEN /\ df' = r.df
             /\ pc' = "construct"
             /\ UNCHANGED <<exc, exitStatus, futures>>
        ELSE /\ Raise(r.exc)
             /\ UNCHANGED <<df, futures>>
  /\ UNCHANGED <<csv, producer, i, calls, payloads, stdout>>

\* lines 8-11: the constructor bootstraps a connection and raises
\* NoBrokersAvailable when no broker answers.
Construct ==
  /\ pc = "construct"
  /\ \E up \in BOOLEAN :
       IF up
       THEN /\ producer' = TRUE
            /\ pc' = "loop"
            /\ UNCHANGED <<exc, exitStatus, futures>>
       ELSE /\ Raise("NoBrokersAvailable")
            /\ UNCHANGED <<producer, futures>>
  /\ UNCHANGED <<csv, df, i, calls, payloads, stdout>>

\* lines 13-14: one iteration.  send() serializes the value in the caller's
\* thread, so a serializer exception leaves the loop and the script; send()
\* can also time out waiting for metadata.  Otherwise the record is
\* buffered and a future returned, which the script drops.
Send ==
  /\ pc = "loop"
  /\ i < Len(df)
  /\ LET value == ToDict(IterRow(df, i + 1), csv.boxes)
         ser == Serialize(value)
     IN /\ i' = i + 1
        /\ calls' = Append(calls, [topic |-> Topic, value |-> value])
        /\ \E blocked \in BOOLEAN :
             IF blocked
             THEN /\ Raise("KafkaTimeoutError")
                  /\ futures' = Append(AtExit(futures), "raised")
                  /\ payloads' = Append(payloads, <<>>)
             ELSE IF ~ser.ok
             THEN /\ Raise(ser.exc)
                  /\ futures' = Append(AtExit(futures), "raised")
                  /\ payloads' = Append(payloads, <<>>)
             ELSE /\ futures' = Append(futures, "pending")
                  /\ payloads' = Append(payloads, ser.bytes)
                  /\ UNCHANGED <<pc, exc, exitStatus>>
  /\ UNCHANGED <<csv, df, producer, stdout>>

\* line 16: flush() returns when every buffered record has completed,
\* whether it was acknowledged or failed.
Flush ==
  /\ pc = "loop"
  /\ i = Len(df)
  /\ \A k \in 1..Len(futures) : futures[k] # "pending"
  /\ pc' = "print"
  /\ UNCHANGED <<csv, df, producer, i, calls, futures, payloads, stdout, exc,
                 exitStatus>>

\* line 17, then normal interpreter exit.
PrintSuccess ==
  /\ pc = "print"
  /\ stdout' = Append(stdout, SuccessLine)
  /\ pc' = "exit"
  /\ exitStatus' = 0
  /\ futures' = AtExit(futures)
  /\ UNCHANGED <<csv, df, producer, i, calls, payloads, exc>>

\* ------------------------------------------- the client's sender thread
\* The broker acknowledges record k.
BrokerAck ==
  /\ pc # "exit"
  /\ \E k \in 1..Len(futures) :
       /\ futures[k] = "pending"
       /\ futures' = [futures EXCEPT ![k] = "acked"]
  /\ UNCHANGED <<csv, pc, df, producer, i, calls, payloads, stdout, exc,
                 exitStatus>>

\* Record k fails: "fatal" is a non-retryable broker error (authorization,
\* record too large), "expired" a transient one whose retries ran out.
\* The failure is stored in the future; nothing is raised in the script.
BrokerFail ==
  /\ pc # "exit"
  /\ \E k \in 1..Len(futures), kind \in {"fatal", "expired"} :
       /\ futures[k] = "pending"
       /\ futures' = [futures EXCEPT ![k] = kind]
  /\ UNCHANGED <<csv, pc, df, producer, i, calls, payloads, stdout, exc,
                 exitStatus>>

Next ==
  \/ ReadCsv
  \/ Construct
  \/ Send
  \/ Flush
  \/ PrintSuccess
  \/ BrokerAck
  \/ BrokerFail

Spec == Init /\ [][Next]_vars

\* ------------------------------------------------------------ properties
\* The script has reported the data as sent.
Reported == \E n \in 1..Len(stdout) : stdout[n] = SuccessLine

\* The cell the file holds for line l, column c, as text ("NaN" where the
\* line has no such cell).
CellText(l, c) == IF c <= Len(l) THEN l[c] ELSE "NaN"

\* C1: whenever the success line has been printed, every record handed to
\* send() has been acknowledged by the broker; delivery is never reported
\* for a record that failed or is still unacknowledged.
C1_ReportedImpliesAcked ==
  Reported => \A k \in 1..Len(futures) : futures[k] = "acked"

\* C2: a run that completes normally has called send exactly once per line
\* of the file, on topic churn_input_topic, the k-th call carrying the k-th
\* line as a column-name -> value mapping, in file order.
C2_EachRowSentOnceInOrder ==
  exitStatus = 0 =>
    /\ Len(calls) = Len(csv.lines)
    /\ \A k \in 1..Len(calls) :
         /\ calls[k].topic = Topic
         /\ DOMAIN calls[k].value = {Columns[c] : c \in 1..NumCols}
         /\ \A c \in 1..NumCols :
              calls[k].value[Columns[c]].s = CellText(csv.lines[k], c)

\* C2 witness: a normal run over a file of at least two different lines,
\* one of them short.
C2_Witness ==
  /\ exitStatus = 0
  /\ Len(calls) >= 2
  /\ calls[1].value # calls[2].value
  /\ \E k \in 1..Len(csv.lines) : Len(csv.lines[k]) < NumCols

\* C3: once a record has failed with a non-retryable error the pipeline is
\* stopped: success is never reported, the script does not go on to its
\* final statements, and the process ends with a non-zero status.
C3_FatalErrorStopsPipeline ==
  (\E k \in 1..Len(futures) : futures[k] = "fatal") =>
    /\ ~Reported
    /\ pc # "print"
    /\ pc = "exit" => exitStatus # 0

\* C4: when the input file cannot be read, the run ends with the
\* source-unreadable error, a non-zero status, and without a producer having
\* been constructed or any send made; and that error never occurs after a
\* send.
C4_UnreadableAbortsBeforeSend ==
  /\ (csv.status # "ok" /\ pc # "read") =>
       /\ pc = "exit"
       /\ exc \in SourceUnreadable
       /\ exitStatus = 1
       /\ ~producer
       /\ calls = <<>>
       /\ ~Reported
  /\ exc \in SourceUnreadable => calls = <<>>

\* C4 witness: a file holding lines could not be read and the run has ended.
C4_Witness ==
  /\ csv.status # "ok"
  /\ csv.lines # <<>>
  /\ pc = "exit"
  /\ exc \in SourceUnreadable

====
